---- MODULE Spec2Model ----
(***************************************************************************)
(* Model of the batch find-and-replace tool (src/app.py): the pattern      *)
(* matcher replace_text, the PDF, CSV and XML handlers, and the batch loop *)
(* run by the "Start Replacement" button.                                  *)
(*                                                                         *)
(* A text is a sequence of one-character strings.                          *)
(***************************************************************************)
EXTENDS Integers, Sequences, FiniteSets, TLC

VARIABLES
    matcher,               \* a call of replace_text: arguments, position, result
    xml,                   \* a call of replace_in_xml
    csv,                   \* a call of replace_in_csv
    pdf,                   \* a call of replace_in_pdf_fitz
    \* ---- the batch run (the "Start Replacement" button) ----
    uploaded_files,        \* the uploaded files, in upload order
    find_word,             \* the "Word to Find" input
    pc,                    \* position of the script in the button handler
    i,                     \* index of the file the loop is at
    count,                 \* the loop's local `count`
    status,                \* per file: where it is in the loop body
    replacements_summary,  \* the summary dict: filename -> count
    summary_shown,         \* the lines st.write printed from the summary
    zipf,                  \* the archive: whether created, and its entries
    temp_dir,              \* the temporary directory: whether created, and
                           \* its files as a sequence of <<filename, content>>
    messages,              \* st.warning / st.error output, in order
    calls                  \* handler invocations, in order

batchVars == <<uploaded_files, find_word, pc, i, count, status,
               replacements_summary, summary_shown, zipf, temp_dir,
               messages, calls>>
vars == <<matcher, xml, csv, pdf, batchVars>>

----------------------------------------------------------------------------
(* Bounds *)
MaxTextLen == 3
MaxFindLen == 2
MaxReplLen == 2
MaxFiles == 3
MaxNodes == 3
MaxElemTextLen == 2
MaxRows == 2
MaxCols == 2
MaxPages == 2
MaxBlocks == 2

----------------------------------------------------------------------------
(* Characters *)
BSL == "\\"          \* the backslash
LF  == "<LF>"        \* the line feed that the template escape \n denotes
BEL == "<BEL>"       \* the bell character that the template escape \a denotes

MatchChar == {"a", "A", "n", BSL}

SeqsUpTo(S, n) == UNION {[1..k -> S] : k \in 0..n}

\* str.lower() / the simple case folding re.IGNORECASE compares with
Lower(c) == IF c = "A" THEN "a" ELSE c

\* the characters re.escape puts a backslash before: of the characters here,
\* the backslash
IsSpecial(c) == c = BSL

----------------------------------------------------------------------------
(* The re module, as far as replace_text uses it *)

\* re.escape(find): a backslash before every special character
RECURSIVE re_escape(_)
re_escape(s) ==
    IF s = <<>> THEN <<>>
    ELSE (IF IsSpecial(Head(s)) THEN <<BSL, Head(s)>> ELSE <<Head(s)>>)
         \o re_escape(Tail(s))

\* re.compile(src, flags) of an escaped literal: the sequence of characters the
\* pattern matches one by one; a backslash makes the next character literal
RECURSIVE re_compile_literals(_)
re_compile_literals(src) ==
    IF src = <<>> THEN <<>>
    ELSE IF Head(src) = BSL /\ Len(src) >= 2
         THEN <<src[2]>> \o re_compile_literals(Tail(Tail(src)))
         ELSE <<Head(src)>> \o re_compile_literals(Tail(src))

re_compile(src, ignorecase) ==
    [lits |-> re_compile_literals(src), ignorecase |-> ignorecase]

CharMatches(pattern, p, c) ==
    IF pattern.ignorecase THEN Lower(p) = Lower(c) ELSE p = c

\* does the compiled pattern match text at position pos
MatchAt(pattern, text, pos) ==
    /\ pos + Len(pattern.lits) - 1 <= Len(text)
    /\ \A k \in 1..Len(pattern.lits) :
           CharMatches(pattern, pattern.lits[k], text[pos + k - 1])

\* the replacement template of pattern.subn: a backslash starts an escape.
\* \n is a line feed, \a a bell, \\ a backslash; a backslash followed by
\* another ASCII letter is "bad escape", by a digit a group reference (the
\* pattern has no group: "invalid group reference"), and a backslash that ends
\* the template is "bad escape (end of pattern)".
BadTemplate == [ok |-> FALSE, lits |-> <<>>]

RECURSIVE parse_template(_)
parse_template(repl) ==
    IF repl = <<>> THEN [ok |-> TRUE, lits |-> <<>>]
    ELSE IF Head(repl) # BSL
    THEN LET rest == parse_template(Tail(repl))
         IN  IF ~rest.ok THEN BadTemplate
             ELSE [ok |-> TRUE, lits |-> <<Head(repl)>> \o rest.lits]
    ELSE IF Len(repl) = 1 THEN BadTemplate
    ELSE LET c    == repl[2]
             rest == parse_template(Tail(Tail(repl)))
         IN  IF c \notin {"n", "a", BSL} \/ ~rest.ok
             THEN BadTemplate
             ELSE [ok |-> TRUE,
                   lits |-> <<CASE c = "n" -> LF
                                [] c = "a" -> BEL
                                [] OTHER   -> BSL>> \o rest.lits]

\* the scan of pattern.subn: leftmost match first, then on from its end
RECURSIVE subn_scan(_, _, _, _)
subn_scan(pattern, filler, text, pos) ==
    IF pos > Len(text) THEN [text |-> <<>>, count |-> 0]
    ELSE IF MatchAt(pattern, text, pos)
    THEN LET r == subn_scan(pattern, filler, text, pos + Len(pattern.lits))
         IN  [text |-> filler \o r.text, count |-> r.count + 1]
    ELSE LET r == subn_scan(pattern, filler, text, pos + 1)
         IN  [text |-> <<text[pos]>> \o r.text, count |-> r.count]

\* pattern.subn(repl, text): the template is parsed before the scan starts, so
\* a bad template raises whether or not the pattern occurs
subn(pattern, repl, text) ==
    LET filler == parse_template(repl)
    IN  IF ~filler.ok
        THEN [raised |-> TRUE, text |-> <<>>, count |-> 0]
        ELSE LET r == subn_scan(pattern, filler.lits, text, 1)
             IN  [raised |-> FALSE, text |-> r.text, count |-> r.count]

\* replace_text(text, find, replace, case_sensitive)
replace_text(text, find, replace, case_sensitive) ==
    LET pattern == IF ~case_sensitive
                   THEN re_compile(re_escape(find), TRUE)
                   ELSE re_compile(re_escape(find), FALSE)
    IN  subn(pattern, replace, text)

----------------------------------------------------------------------------
(* Specification of the matcher alone: any arguments, then one call *)

BatchIdle ==
    /\ uploaded_files = <<>>
    /\ find_word = <<>>
    /\ pc = "off"
    /\ i = 0
    /\ count = 0
    /\ status = <<>>
    /\ replacements_summary = <<>>
    /\ summary_shown = <<>>
    /\ zipf = [created |-> FALSE, entries |-> <<>>]
    /\ temp_dir = [created |-> FALSE, files |-> <<>>]
    /\ messages = <<>>
    /\ calls = <<>>

Off == [pc |-> "off"]

InitMatch ==
    /\ matcher \in [pc             : {"ready"},
                    text           : SeqsUpTo(MatchChar, MaxTextLen),
                    find           : SeqsUpTo(MatchChar, MaxFindLen) \ {<<>>},
                    replace        : SeqsUpTo(MatchChar, MaxReplLen),
                    case_sensitive : BOOLEAN,
                    result         : {[raised |-> FALSE, text |-> <<>>, count |-> 0]}]
    /\ xml = Off
    /\ csv = Off
    /\ pdf = Off
    /\ BatchIdle

CallReplaceText ==
    /\ matcher.pc = "ready"
    /\ matcher' = [matcher EXCEPT
                       !.pc = "returned",
                       !.result = replace_text(matcher.text, matcher.find,
                                               matcher.replace,
                                               matcher.case_sensitive)]
    /\ UNCHANGED <<xml, csv, pdf, batchVars>>

NextMatch == CallReplaceText

SpecMatch == InitMatch /\ [][NextMatch]_vars

----------------------------------------------------------------------------
(* What the claims about the matcher mean by an occurrence *)

SameChar(c, d, case_sensitive) ==
    IF case_sensitive THEN c = d ELSE Lower(c) = Lower(d)

\* F, taken as literal text, occurs in T at position p
OccursAt(T, F, p, case_sensitive) ==
    /\ p + Len(F) - 1 <= Len(T)
    /\ \A k \in 1..Len(F) : SameChar(F[k], T[p + k - 1], case_sensitive)

\* T from position p on, each leftmost-first non-overlapping occurrence of F
\* replaced by R as plain text, and the number of these occurrences
RECURSIVE PlainReplace(_, _, _, _, _)
PlainReplace(T, F, R, case_sensitive, p) ==
    IF p > Len(T) THEN [text |-> <<>>, count |-> 0]
    ELSE IF OccursAt(T, F, p, case_sensitive)
    THEN LET r == PlainReplace(T, F, R, case_sensitive, p + Len(F))
         IN  [text |-> R \o r.text, count |-> r.count + 1]
    ELSE LET r == PlainReplace(T, F, R, case_sensitive, p + 1)
         IN  [text |-> <<T[p]>> \o r.text, count |-> r.count]

\* C5: replace_text(T, F, R, caseSensitive) returns the number of
\* leftmost-first non-overlapping occurrences of the literal F in T, and T with
\* exactly these occurrences replaced by R as plain text.
C5_PlainReplacement ==
    matcher.pc = "returned" =>
        LET want == PlainReplace(matcher.text, matcher.find, matcher.replace,
                                 matcher.case_sensitive, 1)
        IN  /\ ~matcher.result.raised
            /\ matcher.result.count = want.count
            /\ matcher.result.text = want.text

\* C6: replacing F with F returns a text equal to T and a count equal to the
\* number of occurrences of F in T, under either case-sensitivity setting.
C6_IdentityReplacement ==
    (matcher.pc = "returned" /\ matcher.replace = matcher.find) =>
        /\ ~matcher.result.raised
        /\ matcher.result.text = matcher.text
        /\ matcher.result.count =
               PlainReplace(matcher.text, matcher.find, matcher.find,
                            matcher.case_sensitive, 1).count

----------------------------------------------------------------------------
(* The XML handler, replace_in_xml *)

\* An element tree is a sequence of elements in document order: parent[k] is
\* the index of element k's parent (0 for the root, element 1), text[k] its
\* direct text (<<>> when elem.text is None).
XmlChar == {"a", "A"}
ElemTexts == SeqsUpTo(XmlChar, MaxElemTextLen)

Parents(n) == {p \in [1..n -> 0..(n - 1)] :
                  /\ p[1] = 0
                  /\ \A k \in 2..n : p[k] \in 1..(k - 1)}

\* list(elem): the children of element e in document order, from index k on
RECURSIVE ChildrenFrom(_, _, _)
ChildrenFrom(parent, e, k) ==
    IF k > Len(parent) THEN <<>>
    ELSE (IF parent[k] = e THEN <<k>> ELSE <<>>) \o ChildrenFrom(parent, e, k + 1)

\* `find in elem.text`: find is a substring of the text, character for character
Contains(text, find) ==
    \E p \in 1..(Len(text) - Len(find) + 1) :
        \A k \in 1..Len(find) : text[p + k - 1] = find[k]

\* the test of line 75 that decides whether an element's text is rewritten
TextIsRewritten(text, find) == text # <<>> /\ Contains(text, find)

InitXml ==
    /\ \E n \in 1..MaxNodes :
       \E parent \in Parents(n) :
       \E orig \in [1..n -> ElemTexts] :
       \E find \in {<<"a">>, <<"A">>, <<"a", "a">>} :
       \E replace \in {<<>>, <<"A">>} :
       \E case_sensitive \in BOOLEAN :
         xml = [pc             |-> "walk",
                parent         |-> parent,
                orig           |-> orig,
                find           |-> find,
                replace        |-> replace,
                case_sensitive |-> case_sensitive,
                text           |-> orig,
                stack          |-> <<1>>,
                visited        |-> <<>>,
                count          |-> 0]
    /\ matcher = Off
    /\ csv = Off
    /\ pdf = Off
    /\ BatchIdle

\* one call of replace_text_elem: the element on top of the stack of pending
\* calls; its children are called next, in document order
ReplaceTextElem ==
    /\ xml.pc = "walk"
    /\ xml.stack # <<>>
    /\ LET e == Head(xml.stack)
           r == replace_text(xml.text[e], xml.find, xml.replace,
                             xml.case_sensitive)
           rewritten == TextIsRewritten(xml.text[e], xml.find)
       IN  IF rewritten /\ r.raised
           THEN xml' = [xml EXCEPT !.pc = "raised"]
           ELSE xml' = [xml EXCEPT
                   !.text    = IF rewritten THEN [@ EXCEPT ![e] = r.text] ELSE @,
                   !.count   = IF rewritten THEN @ + r.count ELSE @,
                   !.visited = Append(@, e),
                   !.stack   = ChildrenFrom(xml.parent, e, 1) \o Tail(@)]
    /\ UNCHANGED <<matcher, csv, pdf, batchVars>>

\* replace_text_elem(root) has returned: return tree, count
XmlReturn ==
    /\ xml.pc = "walk"
    /\ xml.stack = <<>>
    /\ xml' = [xml EXCEPT !.pc = "returned"]
    /\ UNCHANGED <<matcher, csv, pdf, batchVars>>

NextXml == ReplaceTextElem \/ XmlReturn

SpecXml == InitXml /\ [][NextXml]_vars

RECURSIVE SumOver(_, _)
SumOver(f, n) == IF n = 0 THEN 0 ELSE f[n] + SumOver(f, n - 1)

\* C7: the XML handler visits every element; the text of every element with
\* non-empty direct text is afterwards the matcher's output on its original
\* text, and the returned count is the sum of the matcher's counts, for
\* caseSensitive true and false.
C7_XmlRewritesEveryElement ==
    xml.pc \in {"returned", "raised"} =>
        LET n == Len(xml.parent)
            m == [e \in 1..n |-> replace_text(xml.orig[e], xml.find,
                                              xml.replace, xml.case_sensitive)]
        IN  /\ xml.pc = "returned"
            /\ {xml.visited[k] : k \in 1..Len(xml.visited)} = 1..n
            /\ \A e \in 1..n : xml.orig[e] # <<>> => xml.text[e] = m[e].text
            /\ xml.count = SumOver([e \in 1..n |-> m[e].count], n)

----------------------------------------------------------------------------
(* The CSV handler, replace_in_csv *)

\* A CSV file is a header row and data rows of fields; a field is its text
\* (<<>> for an empty field). The column names are their positions.
CsvFields == {<<>>, <<"1">>, <<"a">>, <<"A">>}

IsNumber(field) == field = <<"1">>

\* pd.read_csv: the dtype of column c. A column of numbers and empty fields is
\* numeric (its empty fields are NaN); a column with any other field, and any
\* column of a table without rows, is object
Dtype(rows, c) ==
    IF rows # <<>> /\ \A r \in 1..Len(rows) :
                          IsNumber(rows[r][c]) \/ rows[r][c] = <<>>
    THEN "number"
    ELSE "object"

\* pd.read_csv: the value of a field: NaN when empty, a number in a numeric
\* column, else the field's text
NaN == [nan |-> TRUE]
Str(t) == [str |-> t]
Num(t) == [num |-> t]

read_csv(rows, ncols) ==
    [r \in 1..Len(rows) |->
        [c \in 1..ncols |->
            IF rows[r][c] = <<>> THEN NaN
            ELSE IF Dtype(rows, c) = "number" THEN Num(rows[r][c])
            ELSE Str(rows[r][c])]]

\* str(cell), and astype(str) on a cell: a missing value becomes the text nan
ToStr(cell) == IF cell = NaN THEN <<"n", "a", "n">> ELSE cell.str

InitCsv ==
    /\ \E ncols \in 1..MaxCols :
       \E nrows \in 0..MaxRows :
       \E rows \in [1..nrows -> [1..ncols -> CsvFields]] :
       \E find \in {<<"a">>, <<"n">>} :
       \E case_sensitive \in BOOLEAN :
         csv = [pc             |-> "loop",
                ncols          |-> ncols,
                rows           |-> rows,
                find           |-> find,
                replace        |-> <<"b">>,
                case_sensitive |-> case_sensitive,
                dtype          |-> [c \in 1..ncols |-> Dtype(rows, c)],
                df             |-> read_csv(rows, ncols),
                col            |-> 1,
                count          |-> 0]
    /\ matcher = Off
    /\ xml = Off
    /\ pdf = Off
    /\ BatchIdle

\* lines 62-65: one pass of `for col in df.columns`. The unpacking of
\* zip(*[...]) into two names raises ValueError when the column has no cell
CsvColumn ==
    /\ csv.pc = "loop"
    /\ csv.col <= csv.ncols
    /\ LET c == csv.col
           n == Len(csv.df)
           results == [r \in 1..n |->
                          replace_text(ToStr(csv.df[r][c]), csv.find,
                                       csv.replace, csv.case_sensitive)]
       IN  IF csv.dtype[c] # "object"
           THEN csv' = [csv EXCEPT !.col = c + 1]
           ELSE IF n = 0 \/ \E r \in 1..n : results[r].raised
           THEN csv' = [csv EXCEPT !.pc = "raised"]
           ELSE csv' = [csv EXCEPT
                   !.df    = [r \in 1..n |->
                                 [@[r] EXCEPT ![c] = Str(results[r].text)]],
                   !.count = @ + SumOver([r \in 1..n |-> results[r].count], n),
                   !.col   = c + 1]
    /\ UNCHANGED <<matcher, xml, pdf, batchVars>>

\* line 66: return df, count
CsvReturn ==
    /\ csv.pc = "loop"
    /\ csv.col > csv.ncols
    /\ csv' = [csv EXCEPT !.pc = "returned"]
    /\ UNCHANGED <<matcher, xml, pdf, batchVars>>

NextCsv == CsvColumn \/ CsvReturn

SpecCsv == InitCsv /\ [][NextCsv]_vars

\* C8: on a table of a header row and no data row the CSV handler succeeds
\* with count 0 and returns the same headers and no row.
C8_EmptyTableSucceeds ==
    (csv.pc \in {"returned", "raised"} /\ csv.rows = <<>>) =>
        /\ csv.pc = "returned"
        /\ csv.count = 0
        /\ csv.df = <<>>
        /\ DOMAIN csv.dtype = 1..csv.ncols

\* C9: the CSV handler leaves the cells of non-textual columns as they were
\* read, replaces every cell of a textual column, empty ones included, by the
\* matcher's output on the cell's original value, keeps the number of rows and
\* the columns, and returns the sum of the matcher's counts over the cells of
\* the textual columns. (Stated for the tables with a row; the table without
\* rows is C8's.)
C9_CsvRewritesTextColumns ==
    (csv.pc \in {"returned", "raised"} /\ csv.rows # <<>>) =>
        LET n == Len(csv.rows)
            textual == {c \in 1..csv.ncols : csv.dtype[c] = "object"}
            m == [r \in 1..n |-> [c \in 1..csv.ncols |->
                     replace_text(csv.rows[r][c], csv.find,
                                  csv.replace, csv.case_sensitive)]]
            colsum == [c \in 1..csv.ncols |->
                          IF c \in textual
                          THEN SumOver([r \in 1..n |-> m[r][c].count], n)
                          ELSE 0]
        IN  /\ csv.pc = "returned"
            /\ Len(csv.df) = n
            /\ \A r \in 1..n :
                   /\ DOMAIN csv.df[r] = 1..csv.ncols
                   /\ \A c \in 1..csv.ncols :
                          IF c \in textual
                          THEN csv.df[r][c] = Str(m[r][c].text)
                          ELSE csv.df[r][c] = read_csv(csv.rows, csv.ncols)[r][c]
            /\ csv.count = SumOver(colsum, csv.ncols)

----------------------------------------------------------------------------
(* The PDF handler, replace_in_pdf_fitz *)

\* A block of page.get_text("blocks") is <<x0, y0, x1, y1, text, block_no,
\* block_type>>; here a record of its rectangle, its type (0 text, 1 image) and
\* its text. All rectangles lie in one row of the page, from y 0 to y 1.
\* Among them: one within another, two that share only a part, two that only
\* touch.
Rects == {<<0, 0, 2, 1>>, <<1, 0, 2, 1>>, <<1, 0, 3, 1>>, <<2, 0, 3, 1>>}

Blocks == [rect : Rects, type : {0}, text : {<<"a">>, <<"A">>}]
          \cup [rect : Rects, type : {1}, text : {<<>>}]

PdfPages == UNION {[1..n -> Blocks] : n \in 0..MaxBlocks}

\* the two rectangles share an area
Overlap(r, q) == r[1] < q[3] /\ q[1] < r[3] /\ r[2] < q[4] /\ q[2] < r[4]

\* rectangle q lies within rectangle r
Within(q, r) == r[1] <= q[1] /\ q[3] <= r[3] /\ r[2] <= q[2] /\ q[4] <= r[4]

fontsize == 11

\* page.add_redact_annot(rect, fill=(1, 1, 1)); page.apply_redactions(): what
\* is left of the content a block had on the page. Everything inside rect is
\* removed: the content of a block that lies within rect is gone; of a text
\* block that only shares an area with rect, the characters in that area are
\* removed, which may be some of them or none (`spared` tells); an image that
\* shares an area with rect loses the pixels in it. Content outside rect stays.
AfterRedaction(item, rect, spared) ==
    IF ~Overlap(item.rect, rect) THEN item
    ELSE IF Within(item.rect, rect) THEN [item EXCEPT !.intact = FALSE]
    ELSE IF item.type = 1 THEN [item EXCEPT !.intact = FALSE]
    ELSE [item EXCEPT !.intact = @ /\ spared]

\* the page content: for each block of the input, whether what it showed is
\* still there (intact), and the texts page.insert_text has added
InitPdf ==
    /\ \E np \in 1..MaxPages :
       \E doc \in [1..np -> PdfPages] :
       \E case_sensitive \in BOOLEAN :
         pdf = [pc             |-> "page",
                doc            |-> doc,
                find           |-> <<"a">>,
                replace        |-> <<"c">>,
                case_sensitive |-> case_sensitive,
                page           |-> 1,
                blocks         |-> <<>>,
                block          |-> 1,
                content        |-> [pg \in 1..np |->
                                      [b \in 1..Len(doc[pg]) |->
                                          [rect   |-> doc[pg][b].rect,
                                           type   |-> doc[pg][b].type,
                                           intact |-> TRUE]]],
                inserted       |-> <<>>,
                total_count    |-> 0]
    /\ matcher = Off
    /\ xml = Off
    /\ csv = Off
    /\ BatchIdle

\* lines 44-45: the next page of `for page in doc`, and its blocks as they are
\* now
PdfPage ==
    /\ pdf.pc = "page"
    /\ pdf.page <= Len(pdf.doc)
    /\ pdf' = [pdf EXCEPT !.pc = "block",
                          !.blocks = pdf.doc[pdf.page],
                          !.block = 1]
    /\ UNCHANGED <<matcher, xml, csv, batchVars>>

\* lines 46-55: one pass of `for block in blocks`
PdfBlock ==
    /\ pdf.pc = "block"
    /\ pdf.block <= Len(pdf.blocks)
    /\ LET block == pdf.blocks[pdf.block]
           r == replace_text(block.text, pdf.find, pdf.replace,
                             pdf.case_sensitive)
       IN  IF block.type # 0
           THEN pdf' = [pdf EXCEPT !.block = @ + 1]
           ELSE IF r.raised
           THEN pdf' = [pdf EXCEPT !.pc = "raised"]
           ELSE IF r.count = 0
           THEN pdf' = [pdf EXCEPT !.block = @ + 1]
           ELSE \E spared \in BOOLEAN :
                  pdf' = [pdf EXCEPT
                     !.total_count = @ + r.count,
                     !.content[pdf.page] =
                         [b \in 1..Len(@) |->
                             AfterRedaction(@[b], block.rect, spared)],
                     !.inserted = Append(@, [page     |-> pdf.page,
                                             at       |-> <<block.rect[1],
                                                            block.rect[2]>>,
                                             text     |-> r.text,
                                             fontsize |-> fontsize]),
                     !.block = @ + 1]
    /\ UNCHANGED <<matcher, xml, csv, batchVars>>

\* the blocks of the page are done
PdfPageDone ==
    /\ pdf.pc = "block"
    /\ pdf.block > Len(pdf.blocks)
    /\ pdf' = [pdf EXCEPT !.pc = "page", !.page = @ + 1]
    /\ UNCHANGED <<matcher, xml, csv, batchVars>>

\* line 56: return doc, total_count
PdfReturn ==
    /\ pdf.pc = "page"
    /\ pdf.page > Len(pdf.doc)
    /\ pdf' = [pdf EXCEPT !.pc = "returned"]
    /\ UNCHANGED <<matcher, xml, csv, batchVars>>

NextPdf == PdfPage \/ PdfBlock \/ PdfPageDone \/ PdfReturn

SpecPdf == InitPdf /\ [][NextPdf]_vars

\* the matcher's count on a block of the input (0 for an image)
BlockCount(block) ==
    IF block.type # 0 THEN 0
    ELSE replace_text(block.text, pdf.find, pdf.replace,
                      pdf.case_sensitive).count

\* C10: after the PDF handler has processed all blocks, every text block whose
\* matcher count is 0 and every image block has the rectangle and the content
\* it had in the input, whatever was redacted and reinserted for other blocks
\* (rectangles may overlap), and the returned count is the sum of the matcher's
\* counts over the text blocks of the input.
C10_UnmatchedBlocksUntouched ==
    pdf.pc = "returned" =>
        /\ \A pg \in 1..Len(pdf.doc) : \A b \in 1..Len(pdf.doc[pg]) :
               BlockCount(pdf.doc[pg][b]) = 0 =>
                   /\ pdf.content[pg][b].rect = pdf.doc[pg][b].rect
                   /\ pdf.content[pg][b].intact
        /\ pdf.total_count =
               SumOver([pg \in 1..Len(pdf.doc) |->
                           SumOver([b \in 1..Len(pdf.doc[pg]) |->
                                       BlockCount(pdf.doc[pg][b])],
                                   Len(pdf.doc[pg]))],
                       Len(pdf.doc))

----------------------------------------------------------------------------
(* The batch run: the script from the "Start Replacement" button on *)

\* A filename is the sequence of its parts between dots: <<"a", "PDF">> is a.PDF.
\* d.txt has an extension outside the uploader's list, the case of the loop's
\* else branch.
Filenames == {<<"a", "PDF">>, <<"a", "csv">>, <<"b", "xml">>, <<"c", "xpt">>,
              <<"d", "txt">>}

\* What an uploaded file holds, as far as the loop can tell:
\*   hits     the count its handler returns when it parses
\*   parses   FALSE: its handler raises (fitz.open, pd.read_csv, ET.parse)
\*   saves    FALSE: save_modified_file raises after it began to write
Contents == {[hits |-> 1, parses |-> TRUE,  saves |-> TRUE],
             [hits |-> 2, parses |-> TRUE,  saves |-> TRUE],
             [hits |-> 0, parses |-> FALSE, saves |-> TRUE],
             [hits |-> 1, parses |-> TRUE,  saves |-> FALSE]}

UploadedFile == [name : Filenames, content : Contents]

\* str.lower() on an extension
LowerExt(e) == IF e = "PDF" THEN "pdf" ELSE e

\* ext = filename.split(".")[-1].lower()
Ext(filename) == LowerExt(filename[Len(filename)])

Supported(ext) == ext \in {"pdf", "csv", "xml", "xpt"}

\* the handler the if/elif chain selects; xpt has none (the bytes are copied)
HandlerOf(ext) ==
    CASE ext = "pdf" -> "replace_in_pdf_fitz"
      [] ext = "csv" -> "replace_in_csv"
      [] ext = "xml" -> "replace_in_xml"
      [] OTHER       -> "none"

\* a button handler that does not test the find word
AnyFindWord(find) == FALSE

\* the two conditions the button handler tests before the else branch
NoFiles(files) == files = <<>>
NoFindWord(find) == find = <<>>

\* a dict assignment d[key] = value: a new key goes last, a known key keeps
\* its place and takes the new value
DictSet(d, key, value) ==
    IF \E k \in 1..Len(d) : d[k][1] = key
    THEN [k \in 1..Len(d) |-> IF d[k][1] = key THEN <<key, value>> ELSE d[k]]
    ELSE Append(d, <<key, value>>)

DictHas(d, key) == \E k \in 1..Len(d) : d[k][1] = key
DictGet(d, key) == d[CHOOSE k \in 1..Len(d) : d[k][1] = key][2]

\* a writer whose failure is not raised
save_quietly(dir, k, file) ==
    [raised |-> FALSE,
     files  |-> DictSet(dir, file.name,
                        [of |-> k, complete |-> file.content.saves])]

\* save_modified_file(content, output_path, file_type), for the file at index
\* k: the file at output_path is written (completely, or in part when the
\* writer raises)
save_modified_file(dir, k, file) ==
    [raised |-> ~file.content.saves,
     files  |-> DictSet(dir, file.name,
                        [of |-> k, complete |-> file.content.saves])]

\* zipf.write(output_path, arcname=filename): a new entry with the bytes that
\* are at output_path now (a second entry of the same name is added, not merged)
zip_write(entries, dir, filename) ==
    Append(entries, [arcname |-> filename, content |-> DictGet(dir, filename)])

\* a loop that stops at the first exception
StopAfterExcept(k) == Len(uploaded_files) + 1

\* where the loop goes on after `except Exception` (the next file)
AfterExcept(k) == k + 1

Pending   == [state |-> "Pending",    count |-> 0]
Failed    == [state |-> "Failed",     count |-> 0]
Skipped   == [state |-> "Skipped",    count |-> 0]
Succeeded(n) == [state |-> "Succeeded", count |-> n]

Init ==
    /\ matcher = Off
    /\ xml = Off
    /\ csv = Off
    /\ pdf = Off
    /\ uploaded_files \in SeqsUpTo(UploadedFile, MaxFiles)
    /\ find_word \in {<<>>, <<"a">>}
    /\ pc = "button"
    /\ i = 0
    /\ count = 0
    /\ status = [k \in 1..Len(uploaded_files) |-> Pending]
    /\ replacements_summary = <<>>
    /\ summary_shown = <<>>
    /\ zipf = [created |-> FALSE, entries |-> <<>>]
    /\ temp_dir = [created |-> FALSE, files |-> <<>>]
    /\ messages = <<>>
    /\ calls = <<>>

\* lines 98-106: the button is pressed
NoFilesWarning ==
    /\ pc = "button"
    /\ NoFiles(uploaded_files)
    /\ messages' = Append(messages, [kind |-> "warning", about |-> "no files"])
    /\ pc' = "rejected"
    /\ UNCHANGED <<matcher, xml, csv, pdf, uploaded_files, find_word, i, count, status,
                   replacements_summary, summary_shown, zipf, temp_dir, calls>>

NoFindWordWarning ==
    /\ pc = "button"
    /\ ~NoFiles(uploaded_files)
    /\ NoFindWord(find_word)
    /\ messages' = Append(messages, [kind |-> "warning", about |-> "no find word"])
    /\ pc' = "rejected"
    /\ UNCHANGED <<matcher, xml, csv, pdf, uploaded_files, find_word, i, count, status,
                   replacements_summary, summary_shown, zipf, temp_dir, calls>>

StartReplacement ==
    /\ pc = "button"
    /\ ~NoFiles(uploaded_files)
    /\ ~NoFindWord(find_word)
    /\ temp_dir' = [created |-> TRUE, files |-> <<>>]
    /\ zipf' = [created |-> TRUE, entries |-> <<>>]
    /\ i' = 1
    /\ pc' = "for"
    /\ UNCHANGED <<matcher, xml, csv, pdf, uploaded_files, find_word, count, status,
                   replacements_summary, summary_shown, messages, calls>>

\* lines 107-113, 122, 126-128: the next file, and the branch its extension takes
Dispatch ==
    /\ pc = "for"
    /\ i <= Len(uploaded_files)
    /\ LET ext == Ext(uploaded_files[i].name)
       IN  /\ Supported(ext)
           /\ status' = [status EXCEPT ![i] = [state |-> "Dispatched", count |-> 0]]
           /\ IF ext = "xpt"
              THEN /\ pc' = "save"
                   /\ calls' = calls
              ELSE /\ pc' = "handler"
                   /\ calls' = Append(calls, <<i, HandlerOf(ext)>>)
    /\ UNCHANGED <<matcher, xml, csv, pdf, uploaded_files, find_word, i, count,
                   replacements_summary, summary_shown, zipf, temp_dir, messages>>

Unsupported ==
    /\ pc = "for"
    /\ i <= Len(uploaded_files)
    /\ ~Supported(Ext(uploaded_files[i].name))
    /\ messages' = Append(messages, [kind |-> "unsupported",
                                     about |-> uploaded_files[i].name])
    /\ status' = [status EXCEPT ![i] = Skipped]
    /\ i' = i + 1
    /\ UNCHANGED <<matcher, xml, csv, pdf, uploaded_files, find_word, pc, count,
                   replacements_summary, summary_shown, zipf, temp_dir, calls>>

\* lines 114, 117, 120: the handler returns (content, count)
HandlerReturns ==
    /\ pc = "handler"
    /\ uploaded_files[i].content.parses
    /\ count' = uploaded_files[i].content.hits
    /\ pc' = "save"
    /\ UNCHANGED <<matcher, xml, csv, pdf, uploaded_files, find_word, i, status,
                   replacements_summary, summary_shown, zipf, temp_dir,
                   messages, calls>>

\* lines 133-134: the handler raises, the except clause reports it
HandlerRaises ==
    /\ pc = "handler"
    /\ ~uploaded_files[i].content.parses
    /\ messages' = Append(messages, [kind |-> "error",
                                     about |-> uploaded_files[i].name])
    /\ status' = [status EXCEPT ![i] = Failed]
    /\ i' = AfterExcept(i)
    /\ pc' = "for"
    /\ UNCHANGED <<matcher, xml, csv, pdf, uploaded_files, find_word, count,
                   replacements_summary, summary_shown, zipf, temp_dir, calls>>

\* lines 115, 118, 121, 123-125: save_modified_file returns
SaveReturns ==
    /\ pc = "save"
    /\ LET r == save_modified_file(temp_dir.files, i, uploaded_files[i])
       IN  /\ ~r.raised
           /\ temp_dir' = [temp_dir EXCEPT !.files = r.files]
    /\ count' = IF Ext(uploaded_files[i].name) = "xpt" THEN 0 ELSE count
    /\ pc' = "record"
    /\ UNCHANGED <<matcher, xml, csv, pdf, uploaded_files, find_word, i, status,
                   replacements_summary, summary_shown, zipf, messages, calls>>

SaveRaises ==
    /\ pc = "save"
    /\ LET r == save_modified_file(temp_dir.files, i, uploaded_files[i])
       IN  /\ r.raised
           /\ temp_dir' = [temp_dir EXCEPT !.files = r.files]
    /\ messages' = Append(messages, [kind |-> "error",
                                     about |-> uploaded_files[i].name])
    /\ status' = [status EXCEPT ![i] = Failed]
    /\ i' = AfterExcept(i)
    /\ pc' = "for"
    /\ UNCHANGED <<matcher, xml, csv, pdf, uploaded_files, find_word, count,
                   replacements_summary, summary_shown, zipf, calls>>

\* lines 130-131
Record ==
    /\ pc = "record"
    /\ replacements_summary' =
           DictSet(replacements_summary, uploaded_files[i].name, count)
    /\ zipf' = [zipf EXCEPT !.entries =
                   zip_write(zipf.entries, temp_dir.files, uploaded_files[i].name)]
    /\ status' = [status EXCEPT ![i] = Succeeded(count)]
    /\ i' = i + 1
    /\ pc' = "for"
    /\ UNCHANGED <<matcher, xml, csv, pdf, uploaded_files, find_word, count, summary_shown,
                   temp_dir, messages, calls>>

\* lines 136-143: the loop is over; the summary dict is written out
ShowSummary ==
    /\ pc = "for"
    /\ i > Len(uploaded_files)
    /\ summary_shown' = replacements_summary
    /\ pc' = "done"
    /\ UNCHANGED <<matcher, xml, csv, pdf, uploaded_files, find_word, i, count, status,
                   replacements_summary, zipf, temp_dir, messages, calls>>

Next ==
    \/ NoFilesWarning
    \/ NoFindWordWarning
    \/ StartReplacement
    \/ Dispatch
    \/ Unsupported
    \/ HandlerReturns
    \/ HandlerRaises
    \/ SaveReturns
    \/ SaveRaises
    \/ Record
    \/ ShowSummary

Spec == Init /\ [][Next]_vars

----------------------------------------------------------------------------
(* Claims about the batch run *)

N == Len(uploaded_files)

\* what the loop body does with a file when nothing else is in the batch
AloneOutcome(file) ==
    LET ext == Ext(file.name)
    IN  IF ~Supported(ext) THEN Skipped
        ELSE IF ext # "xpt" /\ ~file.content.parses THEN Failed
        ELSE IF ~file.content.saves THEN Failed
        ELSE Succeeded(IF ext = "xpt" THEN 0 ELSE file.content.hits)

WasCalled(k) ==
    \E c \in 1..Len(calls) : calls[c] = <<k, HandlerOf(Ext(uploaded_files[k].name))>>

\* C1: a file's failure never aborts the run nor changes another file's
\* outcome: when the run is over, every file after a failed one was dispatched
\* to its handler, and every file that succeeds alone has succeeded, with the
\* same count.
C1_FailureIsolated ==
    pc = "done" =>
        /\ \A f \in 1..N : \A k \in 1..N :
               (f < k /\ status[f].state = "Failed") =>
                   /\ status[k].state \notin {"Pending", "Dispatched"}
                   /\ HandlerOf(Ext(uploaded_files[k].name)) # "none"
                          => WasCalled(k)
        /\ \A k \in 1..N :
               AloneOutcome(uploaded_files[k]).state = "Succeeded"
                   => status[k] = AloneOutcome(uploaded_files[k])

\* Scenario D: three files, the second a PDF that cannot be parsed; the first
\* and the third succeed and the archive holds two entries
C1_Witness ==
    /\ pc = "done"
    /\ N = 3
    /\ Ext(uploaded_files[2].name) = "pdf"
    /\ ~uploaded_files[2].content.parses
    /\ status[1].state = "Succeeded"
    /\ status[2].state = "Failed"
    /\ status[3].state = "Succeeded"
    /\ Len(zipf.entries) = 2

ReportLines(kind, filename) ==
    {m \in 1..Len(messages) :
        messages[m].kind = kind /\ messages[m].about = filename}

\* C2: when the run is over the report holds exactly one outcome per input
\* file (a success with its count, a failure, or a skip), and as many entries
\* as there are input files, also when two files share a filename.
C2_OneOutcomePerFile ==
    pc = "done" =>
        /\ Len(summary_shown) + Len(messages) = N
        /\ \A k \in 1..N :
               LET name == uploaded_files[k].name
               IN  CASE status[k].state = "Succeeded" ->
                            /\ DictHas(summary_shown, name)
                            /\ DictGet(summary_shown, name) = status[k].count
                     [] status[k].state = "Failed" ->
                            ReportLines("error", name) # {}
                     [] status[k].state = "Skipped" ->
                            ReportLines("unsupported", name) # {}
                     [] OTHER -> FALSE

EntriesOf(k) == {e \in 1..Len(zipf.entries) : zipf.entries[e].content.of = k}

\* C3: at every point of the run the archive holds exactly one entry for each
\* file that has succeeded, under its filename and with its completely written
\* output, and none for a file that failed or was skipped; a file with an entry
\* has gone through its handler and its serialization without error.
C3_ArchiveHoldsSuccesses ==
    \A k \in 1..N :
        IF status[k].state = "Succeeded"
        THEN /\ Cardinality(EntriesOf(k)) = 1
             /\ \A e \in EntriesOf(k) :
                    /\ zipf.entries[e].arcname = uploaded_files[k].name
                    /\ zipf.entries[e].content.complete
             /\ uploaded_files[k].content.saves
             /\ Ext(uploaded_files[k].name) # "xpt"
                    => uploaded_files[k].content.parses
        ELSE EntriesOf(k) = {}

\* a file succeeded, then a later file of the same name failed while it was
\* written over the first one's output, and a third was skipped
C3_Witness ==
    /\ pc = "done"
    /\ \E j \in 1..N : \E k \in 1..N : \E u \in 1..N :
           /\ j < k
           /\ uploaded_files[j].name = uploaded_files[k].name
           /\ status[j].state = "Succeeded"
           /\ status[k].state = "Failed"
           /\ uploaded_files[k].content.parses
           /\ status[u].state = "Skipped"

\* C4: with no input file or with an empty find term the run is rejected
\* before any processing: no handler is called, no archive or temporary
\* directory is created, and no outcome is recorded for any file.
C4_RejectedBeforeProcessing ==
    (pc # "button" /\ (uploaded_files = <<>> \/ find_word = <<>>)) =>
        /\ pc = "rejected"
        /\ calls = <<>>
        /\ ~zipf.created
        /\ ~temp_dir.created
        /\ \A k \in 1..N : status[k] = Pending
        /\ replacements_summary = <<>>
        /\ summary_shown = <<>>
        /\ \A m \in 1..Len(messages) : messages[m].kind = "warning"

\* Scenario E: files were uploaded, the find term is empty, the button was
\* pressed
C4_Witness ==
    /\ pc = "rejected"
    /\ N = MaxFiles
    /\ find_word = <<>>
    /\ Len(messages) = 1

====
